---- MODULE Spec2Model ----
(***************************************************************************)
(* Model of preventScrollBugsIfNeeded (src/preventScrollBugsIfNeeded.ts):  *)
(* the touchstart guard, the onTouchMove / onTouchEnd closures it          *)
(* registers on document.body, and the keyboard dismisser.                 *)
(*                                                                         *)
(* The document is  document > html > body > outer > inner, next to a      *)
(* detached element that has no parent.  Every element                     *)
(* carries the geometry the guard reads (scrollHeight, clientHeight,       *)
(* scrollWidth, clientWidth), its 'scrollable' class flag, and its scroll  *)
(* offsets.  document.body's listener registry is kept per event type, in  *)
(* registration order; a listener is identified by event type, callback    *)
(* and capture flag, as addEventListener / removeEventListener do.         *)
(***************************************************************************)
EXTENDS Integers, Sequences, FiniteSets, TLC

\* ------------------------------------------------------------------ bounds
MaxOverflow == 2   \* largest scrollHeight - clientHeight (and width analogue)
ClientSize == 2    \* clientHeight and clientWidth of every element
MaxY == 1          \* clientY of a touch point ranges over 0..MaxY
MaxGestures == 2   \* guard invocations in one behaviour
MaxTouches == 2    \* touch points on the screen at once

Null == "null"
Body == "body"
Elements == {"inner", "outer", Body}

\* The elements a touch can start on: those of the body, the root element,
\* and an element of a detached subtree.
Targets == Elements \cup {"html", "detached"}

\* parentNode of every node
parentNode ==
  [n \in Targets \cup {"document"} |->
     CASE n = "inner" -> "outer"
       [] n = "outer" -> Body
       [] n = Body -> "html"
       [] n = "html" -> "document"
       [] n = "document" -> Null
       [] n = "detached" -> Null]

\* Element.classList: the document node has no classList property.
HasClassList(n) == n # "document"

\* document.body is on the propagation path of an event dispatched at target.
RECURSIVE OnBodyPath(_)
OnBodyPath(target) ==
  IF target = Null THEN FALSE
  ELSE IF target = Body THEN TRUE
  ELSE OnBodyPath(parentNode[target])

VARIABLES
  dom,            \* element -> [scrollable, scrollHeight, clientHeight, scrollWidth, clientWidth]
  scrollTop,      \* element -> vertical scroll offset
  scrollLeft,     \* element -> horizontal scroll offset
  listeners,      \* document.body's listeners: event type -> sequence of listeners
  activeElement,  \* document.activeElement: [kind, tagName, type attribute]
  touches,        \* number of touch points on the screen
  gesture,        \* the last guarded touchstart: its target, clientY, the flag passed
                  \* to the guard, and the scroll offsets the guard found
  invocations,    \* number of guard invocations so far
  lastEvent       \* the event dispatched last and what its handlers did to it

vars == <<dom, scrollTop, scrollLeft, listeners, activeElement, touches, gesture,
          invocations, lastEvent>>

\* A touch point is on the screen (between touchstart and touchend).
touching == touches > 0

\* ------------------------------------------------------- the touchstart guard

\* Variant: the class check is missing, the touch target itself is taken.
WalkTargetOnly(d, target) ==
  [target |-> target, marked |-> target # Null /\ target # Body, threw |-> FALSE]

\* Variant: the walk stops at the root element instead of document.body.
RECURSIVE WalkUpToHtml(_, _)
WalkUpToHtml(d, target) ==
  IF target # Null /\ target # "html"
  THEN IF d[target].scrollable
       THEN [target |-> target, marked |-> TRUE, threw |-> FALSE]
       ELSE WalkUpToHtml(d, parentNode[target])
  ELSE [target |-> target, marked |-> FALSE, threw |-> FALSE]

\* Step 1: the ancestor walk.  Yields the node the loop variable `target`
\* holds when the loop is left: the first element carrying the class (break),
\* or document.body / null (loop condition false).  Reading classList of a
\* node that has none yields undefined, and calling contains on it throws.
RECURSIVE Walk(_, _)
Walk(d, target) ==
  IF target # Null /\ target # Body
  THEN IF ~HasClassList(target)
       THEN [target |-> target, marked |-> FALSE, threw |-> TRUE]
       ELSE IF d[target].scrollable
            THEN [target |-> target, marked |-> TRUE, threw |-> FALSE]
            ELSE Walk(d, parentNode[target])
  ELSE [target |-> target, marked |-> FALSE, threw |-> FALSE]

\* The flags: assigned from the walk's element when the loop was left by
\* `break`, false as initialised otherwise.
HasVerticalScroll(d, found) ==
  found.marked /\ d[found.target].scrollHeight > d[found.target].clientHeight

HasHorizontalScroll(d, found) ==
  found.marked /\ d[found.target].scrollWidth > d[found.target].clientWidth

\* Variant: the bottom edge is not nudged.
NudgeTopNoBottom(d, top, target) ==
  IF top[target] = 0 THEN 1 ELSE top[target]

\* Step 2, vertical branch: the value of target.scrollTop after the guard.
NudgeTop(d, top, target) ==
  IF top[target] = 0
  THEN 1
  ELSE IF top[target] = d[target].scrollHeight - d[target].clientHeight
       THEN (d[target].scrollHeight - d[target].clientHeight) - 1
       ELSE top[target]

\* Step 2, horizontal branch: the value of target.scrollLeft after the guard.
NudgeLeft(d, left, target) ==
  IF left[target] = 0
  THEN 1
  ELSE IF left[target] = d[target].scrollWidth - d[target].clientWidth
       THEN (d[target].scrollWidth - d[target].clientWidth) - 1
       ELSE left[target]

GuardScrollTop(d, top, found) ==
  IF HasVerticalScroll(d, found)
  THEN [top EXCEPT ![found.target] = NudgeTop(d, top, found.target)]
  ELSE top

\* Variant: the horizontal branch is an `if` of its own, not an `else if`.
GuardScrollLeftAlso(d, left, found) ==
  IF HasHorizontalScroll(d, found)
  THEN [left EXCEPT ![found.target] = NudgeLeft(d, left, found.target)]
  ELSE left

GuardScrollLeft(d, left, found) ==
  IF HasVerticalScroll(d, found)
  THEN left
  ELSE IF HasHorizontalScroll(d, found)
       THEN [left EXCEPT ![found.target] = NudgeLeft(d, left, found.target)]
       ELSE left

ScrollStartedFromTop(d, top, found) ==
  HasVerticalScroll(d, found) /\ top[found.target] = 0

StartY(d, top, found, clientY) ==
  IF HasVerticalScroll(d, found) /\ top[found.target] = 0 THEN clientY ELSE 0

\* The variables of one guard invocation that its onTouchMove closure reads.
Scope(d, top, target, clientY, always) ==
  [startY |-> StartY(d, top, Walk(d, target), clientY),
   scrollStartedFromTop |-> ScrollStartedFromTop(d, top, Walk(d, target)),
   hasVerticalScroll |-> HasVerticalScroll(d, Walk(d, target)),
   hasHorizontalScroll |-> HasHorizontalScroll(d, Walk(d, target)),
   alwaysPreventPullToRefresh |-> always]

\* ------------------------------------------------------ keyboard dismisser

\* String.prototype.toLowerCase on the strings that occur as tag names and
\* type attributes.
toLowerCase(s) ==
  CASE s = "INPUT" -> "input"
    [] s = "TEXTAREA" -> "textarea"
    [] s = "BODY" -> "body"
    [] s = "TEXT" -> "text"
    [] s = "Password" -> "password"
    [] OTHER -> s

\* document.activeElement after Element.blur(): focus goes to the body.
BodyElement == [kind |-> "HTMLElement", tagName |-> "BODY", type |-> Null]

\* Variant: the type attribute is compared as written.
hideKeyboradCaseSensitive(active) ==
  IF active.kind # Null /\ active.kind = "HTMLElement"
  THEN IF toLowerCase(active.tagName) = "input"
          /\ (active.type = "text" \/ active.type = "password")
       THEN BodyElement
       ELSE active
  ELSE active

\* The value of document.activeElement after hideKeyboradIfNeeded().
hideKeyboradIfNeeded(active) ==
  IF active.kind # Null /\ active.kind = "HTMLElement"
  THEN LET elementTag == toLowerCase(active.tagName)
           elementType == toLowerCase(IF active.type = Null THEN "" ELSE active.type)
       IN IF elementTag = "input" /\ (elementType = "text" \/ elementType = "password")
          THEN BodyElement
          ELSE active
  ELSE active

\* ---------------------------------------------------------- the listeners

Suppress == <<"preventDefault", "stopPropagation", "hideKeyboradIfNeeded">>

\* Variant: moveY >= startY in place of moveY > startY.
onTouchMoveGe(scope, clientY) ==
  IF scope.hasVerticalScroll /\ scope.scrollStartedFromTop
  THEN IF clientY >= scope.startY THEN Suppress ELSE <<>>
  ELSE IF scope.alwaysPreventPullToRefresh
       THEN IF ~scope.hasVerticalScroll /\ ~scope.hasHorizontalScroll
            THEN Suppress
            ELSE <<>>
       ELSE <<>>

\* Variant: branch 3.2 suppresses without looking at the scroll flags.
onTouchMoveAnywhere(scope, clientY) ==
  IF scope.hasVerticalScroll /\ scope.scrollStartedFromTop
  THEN IF clientY > scope.startY THEN Suppress ELSE <<>>
  ELSE IF scope.alwaysPreventPullToRefresh THEN Suppress ELSE <<>>

\* Variant: branch 3.2 does not stop the propagation.
onTouchMoveNoStop(scope, clientY) ==
  IF scope.hasVerticalScroll /\ scope.scrollStartedFromTop
  THEN IF clientY > scope.startY THEN Suppress ELSE <<>>
  ELSE IF scope.alwaysPreventPullToRefresh
       THEN IF ~scope.hasVerticalScroll /\ ~scope.hasHorizontalScroll
            THEN <<"preventDefault", "hideKeyboradIfNeeded">>
            ELSE <<>>
       ELSE <<>>

\* What one run of a guard invocation's onTouchMove calls, in order, on a
\* touchmove whose first touch point is at clientY.
onTouchMove(scope, clientY) ==
  IF scope.hasVerticalScroll /\ scope.scrollStartedFromTop
  THEN IF clientY > scope.startY
       THEN Suppress
       ELSE <<>>
  ELSE IF scope.alwaysPreventPullToRefresh
       THEN IF ~scope.hasVerticalScroll /\ ~scope.hasHorizontalScroll
            THEN Suppress
            ELSE <<>>
       ELSE <<>>

\* EventTarget.addEventListener: a listener equal in type, callback and
\* capture flag to a registered one is not added again.
AddEventListener(reg, type, listener) ==
  IF \E i \in 1..Len(reg[type]) :
       /\ reg[type][i].inv = listener.inv
       /\ reg[type][i].capture = listener.capture
  THEN reg
  ELSE [reg EXCEPT ![type] = Append(@, listener)]

\* EventTarget.removeEventListener: removes the listener of that type whose
\* callback and capture flag both match.
RemoveEventListener(reg, type, inv, capture) ==
  [reg EXCEPT ![type] =
     SelectSeq(@, LAMBDA l : ~(l.inv = inv /\ l.capture = capture))]

\* The capture flag removeEventListener is called with for 'touchend'
\* (no third argument: false).
TouchEndRemoveCapture == FALSE

\* onTouchEnd of guard invocation inv.
onTouchEnd(reg, inv) ==
  RemoveEventListener(
    RemoveEventListener(reg, "touchmove", inv, FALSE),
    "touchend", inv, TouchEndRemoveCapture)

\* The last two statements of the guard.
Register(reg, inv, scope) ==
  AddEventListener(
    AddEventListener(reg, "touchmove",
                     [inv |-> inv, capture |-> FALSE, scope |-> scope]),
    "touchend", [inv |-> inv, capture |-> TRUE])

\* ------------------------------------------------------------- dispatch

\* The calls made on a touchmove event by the touchmove listeners ls, each
\* run once in registration order.
RECURSIVE MoveCalls(_, _)
MoveCalls(ls, clientY) ==
  IF ls = <<>>
  THEN <<>>
  ELSE onTouchMove(Head(ls).scope, clientY) \o MoveCalls(Tail(ls), clientY)

\* document.activeElement after the calls of one dispatch.
RECURSIVE AfterCalls(_, _)
AfterCalls(calls, active) ==
  IF calls = <<>>
  THEN active
  ELSE AfterCalls(Tail(calls),
                  IF Head(calls) = "hideKeyboradIfNeeded"
                  THEN hideKeyboradIfNeeded(active)
                  ELSE active)

\* The registry after the touchend listeners ls (the ones registered when
\* the dispatch began) have each run once.
RECURSIVE EndAll(_, _)
EndAll(ls, reg) ==
  IF ls = <<>>
  THEN reg
  ELSE EndAll(Tail(ls), onTouchEnd(reg, Head(ls).inv))

Ran(ls) == [i \in 1..Len(ls) |-> ls[i].inv]

\* ------------------------------------------------------------ the document

Geometry(scrollable, overflowY, overflowX) ==
  [scrollable |-> scrollable,
   scrollHeight |-> ClientSize + overflowY, clientHeight |-> ClientSize,
   scrollWidth |-> ClientSize + overflowX, clientWidth |-> ClientSize]

Overflows == 0..MaxOverflow

Flat == Geometry(FALSE, 0, 0)

\* The root element is the unmarked page scroller; the detached element is
\* unmarked and flat.
Outside(n) == IF n = "html" THEN Geometry(FALSE, MaxOverflow, 0) ELSE Flat

\* Chain documents: inner and outer each marked or not and flat or
\* overflowing on each axis; body marked or not and overflowing vertically;
\* every offset at 0 (the top and left edge).
ChainDocuments ==
  { [dom |-> [n \in Targets |->
                IF n \notin Elements
                THEN Outside(n)
                ELSE IF n = Body
                THEN Geometry(mb, MaxOverflow, 0)
                ELSE Geometry(m[n], oy[n], ox[n])],
     top |-> [n \in Targets |-> 0],
     left |-> [n \in Targets |-> 0]] :
    mb \in BOOLEAN,
    m \in [{"inner", "outer"} -> BOOLEAN],
    oy \in [{"inner", "outer"} -> {0, MaxOverflow}],
    ox \in [{"inner", "outer"} -> {0, MaxOverflow}] }

\* Geometry documents: outer is marked and has every geometry and every
\* pair of offsets within it; inner is an unmarked flat child.
GeometryDocuments ==
  { [dom |-> [n \in Targets |->
                IF n \notin Elements
                THEN Outside(n)
                ELSE IF n = "outer" THEN Geometry(TRUE, g[1], g[2]) ELSE Flat],
     top |-> [n \in Targets |-> IF n = "outer" THEN g[3] ELSE 0],
     left |-> [n \in Targets |-> IF n = "outer" THEN g[4] ELSE 0]] :
    g \in { h \in Overflows \X Overflows \X Overflows \X Overflows :
              h[3] <= h[1] /\ h[4] <= h[2] } }

Documents == ChainDocuments \cup GeometryDocuments

InputText == [kind |-> "HTMLElement", tagName |-> "INPUT", type |-> "text"]
InputPassword == [kind |-> "HTMLElement", tagName |-> "INPUT", type |-> "Password"]
TextArea == [kind |-> "HTMLElement", tagName |-> "TEXTAREA", type |-> Null]

FocusedElements == {InputText, InputPassword, TextArea}

\* Every focus state the dismisser distinguishes.
NoElement == [kind |-> Null, tagName |-> "", type |-> Null]
InputTextUpper == [kind |-> "HTMLElement", tagName |-> "INPUT", type |-> "TEXT"]
InputNoType == [kind |-> "HTMLElement", tagName |-> "INPUT", type |-> Null]
InputCheckbox == [kind |-> "HTMLElement", tagName |-> "INPUT", type |-> "checkbox"]
XhtmlInput == [kind |-> "HTMLElement", tagName |-> "input", type |-> "password"]
ForeignInput == [kind |-> "SVGElement", tagName |-> "input", type |-> "text"]

ActiveElements ==
  FocusedElements \cup {NoElement, BodyElement, InputTextUpper, InputNoType,
                        InputCheckbox, XhtmlInput, ForeignInput}

NoListeners == [touchmove |-> <<>>, touchend |-> <<>>]

Init ==
  /\ \E doc \in Documents :
       /\ dom = doc.dom
       /\ scrollTop = doc.top
       /\ scrollLeft = doc.left
  /\ listeners = NoListeners
  /\ activeElement \in FocusedElements
  /\ touches = 0
  /\ gesture = [target |-> Null, y |-> 0, always |-> FALSE,
                top |-> scrollTop, left |-> scrollLeft]
  /\ invocations = 0
  /\ lastEvent = [type |-> "none", y |-> 0, calls |-> <<>>, ran |-> <<>>,
                  threw |-> FALSE]

\* ------------------------------------------------------------- the events

\* preventScrollBugsIfNeeded(event, always) on a touchstart on target at
\* clientY.  When the walk throws, the exception leaves the guard before
\* step 2: no offset is written and no listener is registered.
Guard(target, clientY, always) ==
  /\ invocations < MaxGestures
  /\ IF Walk(dom, target).threw
     THEN UNCHANGED <<scrollTop, scrollLeft, listeners>>
     ELSE /\ scrollTop' = GuardScrollTop(dom, scrollTop, Walk(dom, target))
          /\ scrollLeft' = GuardScrollLeft(dom, scrollLeft, Walk(dom, target))
          /\ listeners' = Register(listeners, invocations + 1,
                                   Scope(dom, scrollTop, target, clientY, always))
  /\ invocations' = invocations + 1
  /\ touches' = touches + 1
  /\ gesture' = [target |-> target, y |-> clientY, always |-> always,
                 top |-> scrollTop, left |-> scrollLeft]
  /\ lastEvent' = [type |-> "touchstart", y |-> clientY, calls |-> <<>>, ran |-> <<>>,
                   threw |-> Walk(dom, target).threw]
  /\ UNCHANGED <<dom, activeElement>>

\* A guarded touchstart of a gesture that begins with no touch point on the
\* screen.
TouchStart(target, clientY, always) ==
  /\ ~touching
  /\ Guard(target, clientY, always)

\* A guarded touchstart of a further touch point, before the touchend of the
\* ones on the screen.
TouchStartOverlap(target, clientY, always) ==
  /\ touching
  /\ touches < MaxTouches
  /\ Guard(target, clientY, always)

\* The touchmove listeners a touchmove of the gesture reaches: those of
\* document.body, when the body is on the event's propagation path.
Reached(ls) == IF OnBodyPath(gesture.target) THEN ls ELSE <<>>

\* A touchmove of a touch point to clientY.
TouchMove(clientY) ==
  /\ touching
  /\ activeElement' = AfterCalls(MoveCalls(Reached(listeners.touchmove), clientY),
                                 activeElement)
  /\ lastEvent' = [type |-> "touchmove", y |-> clientY,
                   calls |-> MoveCalls(Reached(listeners.touchmove), clientY),
                   ran |-> Ran(Reached(listeners.touchmove)),
                   threw |-> FALSE]
  /\ UNCHANGED <<dom, scrollTop, scrollLeft, listeners, touches, gesture, invocations>>

\* The touchend of a touch point.
TouchEnd ==
  /\ touching
  /\ listeners' = EndAll(Reached(listeners.touchend), listeners)
  /\ touches' = touches - 1
  /\ lastEvent' = [type |-> "touchend", y |-> 0, calls |-> <<>>,
                   ran |-> Ran(Reached(listeners.touchend)), threw |-> FALSE]
  /\ UNCHANGED <<dom, scrollTop, scrollLeft, activeElement, gesture, invocations>>

\* The touchcancel of a touch point: the guard registers no listener for it.
TouchCancel ==
  /\ touching
  /\ touches' = touches - 1
  /\ lastEvent' = [type |-> "touchcancel", y |-> 0, calls |-> <<>>, ran |-> <<>>,
                   threw |-> FALSE]
  /\ UNCHANGED <<dom, scrollTop, scrollLeft, listeners, activeElement, gesture,
                 invocations>>

Next ==
  \/ \E target \in Elements, clientY \in 0..MaxY, always \in BOOLEAN :
       TouchStart(target, clientY, always)
  \/ \E clientY \in 0..MaxY : TouchMove(clientY)
  \/ TouchEnd

Spec == Init /\ [][Next]_vars

\* Repeated gestures on one vertically scrollable marked element that
\* starts at its top: every touchstart is on outer, and nothing but the guard
\* moves its offset.
InitRepeat ==
  /\ Init
  /\ dom["outer"].scrollable
  /\ dom["outer"].scrollHeight > dom["outer"].clientHeight
  /\ scrollTop["outer"] = 0

NextRepeat ==
  \/ \E clientY \in 0..MaxY, always \in BOOLEAN : TouchStart("outer", clientY, always)
  \/ \E clientY \in 0..MaxY : TouchMove(clientY)
  \/ TouchEnd

SpecRepeat == InitRepeat /\ [][NextRepeat]_vars

\* Any interleaving of guarded touchstarts, touchmoves, touchends and
\* touchcancels of up to MaxTouches touch points, all of them inside the body
\* (so that every event passes document.body), on the documents whose only
\* marked element is outer.
InitAny ==
  /\ Init
  /\ ~dom["inner"].scrollable
  /\ ~dom[Body].scrollable
  /\ dom["outer"].scrollable

NextAny ==
  \/ \E target \in Elements, clientY \in 0..MaxY, always \in BOOLEAN :
       TouchStart(target, clientY, always)
  \/ \E target \in Elements, clientY \in 0..MaxY, always \in BOOLEAN :
       TouchStartOverlap(target, clientY, always)
  \/ \E clientY \in 0..MaxY : TouchMove(clientY)
  \/ TouchEnd
  \/ TouchCancel

SpecAny == InitAny /\ [][NextAny]_vars

\* Complete gestures whose touch target is any element, the root element and
\* the detached element included.
NextWalk ==
  \/ \E target \in Targets, clientY \in 0..MaxY, always \in BOOLEAN :
       TouchStart(target, clientY, always)
  \/ \E clientY \in 0..MaxY : TouchMove(clientY)
  \/ TouchEnd

SpecWalk == Init /\ [][NextWalk]_vars

\* Gestures on the documents whose only marked element is outer, with every
\* focus state.
InitKeyboard ==
  /\ \E doc \in GeometryDocuments :
       /\ dom = doc.dom
       /\ scrollTop = doc.top
       /\ scrollLeft = doc.left
  /\ listeners = NoListeners
  /\ activeElement \in ActiveElements
  /\ touches = 0
  /\ gesture = [target |-> Null, y |-> 0, always |-> FALSE,
                top |-> scrollTop, left |-> scrollLeft]
  /\ invocations = 0
  /\ lastEvent = [type |-> "none", y |-> 0, calls |-> <<>>, ran |-> <<>>,
                  threw |-> FALSE]

SpecKeyboard == InitKeyboard /\ [][Next]_vars

\* ===================================================== properties checked

Range(s) == {s[i] : i \in DOMAIN s}

\* The elements from a touch target up to, and excluding, document.body.
Chain(target) ==
  CASE target = "inner" -> <<"inner", "outer">>
    [] target = "outer" -> <<"outer">>
    [] OTHER -> <<>>

MarkedOnChain(target) ==
  {i \in DOMAIN Chain(target) : dom[Chain(target)[i]].scrollable}

HasMarked(target) == MarkedOnChain(target) # {}

\* The nearest element of the chain that carries the class.
Nearest(target) ==
  Chain(target)[CHOOSE i \in MarkedOnChain(target) :
                  \A j \in MarkedOnChain(target) : i <= j]

OverflowsY(n) == dom[n].scrollHeight > dom[n].clientHeight
OverflowsX(n) == dom[n].scrollWidth > dom[n].clientWidth
MaxTop(n) == dom[n].scrollHeight - dom[n].clientHeight
MaxLeft(n) == dom[n].scrollWidth - dom[n].clientWidth

\* The gesture's nearest marked ancestor scrolls vertically / horizontally.
VerticalGesture == HasMarked(gesture.target) /\ OverflowsY(Nearest(gesture.target))
HorizontalGesture == HasMarked(gesture.target) /\ OverflowsX(Nearest(gesture.target))

\* ... and was at vertical offset 0 when the guard ran.
StartedFromTop == VerticalGesture /\ gesture.top[Nearest(gesture.target)] = 0

\* The variables captured by the touchmove listener registered last.
CurrentScope == listeners.touchmove[Len(listeners.touchmove)].scope

Registered(type, inv) ==
  \E i \in 1..Len(listeners[type]) : listeners[type][i].inv = inv

\* C1: after the touchend that follows a guarded touchstart, neither the
\* touchmove nor the touchend listener that guard invocation registered is
\* still registered on document.body.
C1_PairRemovedAtTouchEnd ==
  lastEvent.type = "touchend" =>
    /\ ~Registered("touchmove", invocations)
    /\ ~Registered("touchend", invocations)

\* C2: with alwaysPreventPullToRefresh = true and the nearest marked
\* ancestor, if any, at vertical offset 0 at touchstart, every touchmove
\* whose Y is greater than the touchstart Y has preventDefault called on it,
\* wherever the screen is touched.
C2_AlwaysPreventEverywhere ==
  ( /\ lastEvent.type = "touchmove"
    /\ gesture.always
    /\ HasMarked(gesture.target) => gesture.top[Nearest(gesture.target)] = 0
    /\ lastEvent.y > gesture.y )
  => "preventDefault" \in Range(lastEvent.calls)

\* C3: in a gesture that started from the top of a vertically scrollable
\* nearest marked ancestor, a touchmove with Y greater than the start Y gets
\* preventDefault, stopPropagation and the keyboard dismisser, and one with Y
\* less than or equal to the start Y gets none of them, whatever the flag.
C3_TopStartSuppression ==
  (lastEvent.type = "touchmove" /\ StartedFromTop) =>
    lastEvent.calls = IF lastEvent.y > gesture.y THEN Suppress ELSE <<>>

C3_Witness ==
  /\ lastEvent.type = "touchmove"
  /\ StartedFromTop
  /\ gesture.always
  /\ lastEvent.y > gesture.y
  /\ lastEvent.calls = Suppress
  /\ activeElement = BodyElement

C5_VerticalEdgeNudge ==
  (lastEvent.type = "touchstart" /\ VerticalGesture) =>
    LET n == Nearest(gesture.target)
        before == gesture.top[n]
    IN /\ scrollTop[n] = IF before = 0 THEN 1
                         ELSE IF before = MaxTop(n) THEN MaxTop(n) - 1
                         ELSE before
       /\ (CurrentScope.scrollStartedFromTop /\ CurrentScope.startY = gesture.y)
            <=> before = 0
       /\ before # 0 => ~CurrentScope.scrollStartedFromTop

C5_Witness ==
  /\ lastEvent.type = "touchstart"
  /\ VerticalGesture
  /\ gesture.top[Nearest(gesture.target)] = MaxTop(Nearest(gesture.target))
  /\ scrollTop[Nearest(gesture.target)] = MaxTop(Nearest(gesture.target)) - 1
  /\ gesture.y > 0
  /\ ~CurrentScope.scrollStartedFromTop

\* C6: between each touchstart and its touchend exactly one guard-registered
\* touchmove listener and exactly one guard-registered touchend listener are
\* registered on document.body.
C6_ExactlyOnePair ==
  touching => Len(listeners.touchmove) = 1 /\ Len(listeners.touchend) = 1

\* C7: the scroll flags are computed from the geometry of the nearest
\* element of the chain that carries the class, and only that element's
\* offset is nudged.
C7_NearestMarkedAncestor ==
  (lastEvent.type = "touchstart" /\ HasMarked(gesture.target)) =>
    LET n == Nearest(gesture.target)
    IN /\ CurrentScope.hasVerticalScroll = OverflowsY(n)
       /\ CurrentScope.hasHorizontalScroll = OverflowsX(n)
       /\ \A e \in Elements \ {n} :
            scrollTop[e] = gesture.top[e] /\ scrollLeft[e] = gesture.left[e]
       /\ (OverflowsY(n) /\ gesture.top[n] = 0) => scrollTop[n] = 1
       /\ (~OverflowsY(n) /\ OverflowsX(n) /\ gesture.left[n] = 0) => scrollLeft[n] = 1

C7_Witness ==
  /\ lastEvent.type = "touchstart"
  /\ gesture.target = "inner"
  /\ ~dom["inner"].scrollable /\ OverflowsY("inner") /\ ~OverflowsX("inner")
  /\ dom["outer"].scrollable /\ ~OverflowsY("outer") /\ OverflowsX("outer")
  /\ ~CurrentScope.hasVerticalScroll /\ CurrentScope.hasHorizontalScroll
  /\ scrollLeft["outer"] = 1 /\ scrollTop["inner"] = 0

\* C8: with no marked element on the chain both flags are false and the
\* guard changes no scroll offset of any element.
C8_NoMarkedAncestor ==
  (lastEvent.type = "touchstart" /\ ~HasMarked(gesture.target)) =>
    /\ ~CurrentScope.hasVerticalScroll
    /\ ~CurrentScope.hasHorizontalScroll
    /\ scrollTop = gesture.top
    /\ scrollLeft = gesture.left

C8_Witness ==
  /\ lastEvent.type = "touchstart"
  /\ gesture.target = "inner"
  /\ ~HasMarked("inner")
  /\ OverflowsY("inner") /\ OverflowsX("outer")
  /\ dom[Body].scrollable /\ OverflowsY(Body)
  /\ scrollTop = gesture.top /\ scrollLeft = gesture.left
  /\ scrollTop[Body] = 0

\* C9: in a sequence of complete gestures on one vertically scrollable
\* marked element that starts at offset 0, with no scrolling but the guard's
\* nudges, every touchmove with Y greater than its gesture's start Y is
\* default-prevented.
C9_RepeatablePrevention ==
  (lastEvent.type = "touchmove" /\ lastEvent.y > gesture.y) =>
    "preventDefault" \in Range(lastEvent.calls)

\* C10: after the guard a vertically scrollable nearest marked ancestor has
\* 0 < scrollTop < scrollHeight - clientHeight, and one with only horizontal
\* scroll has 0 < scrollLeft < scrollWidth - clientWidth.
C10_OffBothEdges ==
  (lastEvent.type = "touchstart" /\ HasMarked(gesture.target)) =>
    LET n == Nearest(gesture.target)
    IN /\ OverflowsY(n) => (0 < scrollTop[n] /\ scrollTop[n] < MaxTop(n))
       /\ (~OverflowsY(n) /\ OverflowsX(n)) =>
            (0 < scrollLeft[n] /\ scrollLeft[n] < MaxLeft(n))

\* C11: in any interleaving of guarded touchstarts, touchmoves, touchends
\* and touchcancels, a touchmove is handled by the onTouchMove of the most
\* recent guard invocation and by no handler of an earlier invocation.
C11_OnlyLatestHandlerRuns ==
  lastEvent.type = "touchmove" => lastEvent.ran = <<invocations>>

\* C12: for every touch target, also one whose parent chain ends without
\* passing document.body, the guard returns without a runtime fault and with
\* its touchmove / touchend pair registered; for such a target both flags
\* are false and no scroll offset is changed.
C12_WalkNeverFaults ==
  lastEvent.type = "touchstart" =>
    /\ ~lastEvent.threw
    /\ Registered("touchmove", invocations)
    /\ Registered("touchend", invocations)
    /\ ~OnBodyPath(gesture.target) =>
         /\ ~CurrentScope.hasVerticalScroll
         /\ ~CurrentScope.hasHorizontalScroll
         /\ scrollTop = gesture.top
         /\ scrollLeft = gesture.left

\* C13: one guard invocation changes at most one scroll offset, of the
\* nearest marked ancestor, by exactly 1; with vertical scroll scrollLeft is
\* left alone; the horizontal nudge (0 to 1, max to max - 1) happens only
\* without vertical scroll and sets neither scrollStartedFromTop nor startY.
C13_SingleNudge ==
  lastEvent.type = "touchstart" =>
    LET changedTop == {n \in Targets : scrollTop[n] # gesture.top[n]}
        changedLeft == {n \in Targets : scrollLeft[n] # gesture.left[n]}
    IN /\ Cardinality(changedTop) + Cardinality(changedLeft) <= 1
       /\ \A n \in changedTop :
            /\ HasMarked(gesture.target) /\ n = Nearest(gesture.target)
            /\ scrollTop[n] - gesture.top[n] \in {1, -1}
       /\ \A n \in changedLeft :
            /\ HasMarked(gesture.target) /\ n = Nearest(gesture.target)
            /\ scrollLeft[n] - gesture.left[n] \in {1, -1}
       /\ VerticalGesture => changedLeft = {}
       /\ (~VerticalGesture /\ HorizontalGesture) =>
            LET n == Nearest(gesture.target)
                before == gesture.left[n]
            IN scrollLeft[n] = IF before = 0 THEN 1
                               ELSE IF before = MaxLeft(n) THEN MaxLeft(n) - 1
                               ELSE before
       /\ ~VerticalGesture =>
            ~CurrentScope.scrollStartedFromTop /\ CurrentScope.startY = 0

C13_Witness ==
  /\ lastEvent.type = "touchstart"
  /\ VerticalGesture /\ HorizontalGesture
  /\ gesture.top[Nearest(gesture.target)] = 0
  /\ gesture.left[Nearest(gesture.target)] = MaxLeft(Nearest(gesture.target))
  /\ scrollTop[Nearest(gesture.target)] = 1
  /\ scrollLeft = gesture.left

\* The focus states the dismisser is to blur: an HTML element whose tag is
\* input and whose type attribute is text or password in any letter case.
Blurrable(active) ==
  /\ active.kind = "HTMLElement"
  /\ active.tagName \in {"INPUT", "input"}
  /\ active.type \in {"text", "TEXT", "password", "Password"}

\* C14: the keyboard dismisser blurs the focused element exactly when it is
\* an HTML input whose type attribute is, case-insensitively, text or
\* password; in every other focus state it changes nothing.
C14_DismisserBlursTextInputs ==
  [][ (lastEvent'.type = "touchmove"
         /\ "hideKeyboradIfNeeded" \in Range(lastEvent'.calls))
      => activeElement' = IF Blurrable(activeElement)
                          THEN BodyElement
                          ELSE activeElement ]_vars

C14_Witness ==
  /\ lastEvent.type = "touchmove"
  /\ "hideKeyboradIfNeeded" \in Range(lastEvent.calls)
  /\ activeElement = InputNoType

\* onTouchMove with the `return` of branch 3.1 removed: branch 3.2 is
\* evaluated after it on every move.
onTouchMoveNoReturn(scope, clientY) ==
  (IF scope.hasVerticalScroll /\ scope.scrollStartedFromTop
   THEN IF clientY > scope.startY THEN Suppress ELSE <<>>
   ELSE <<>>)
  \o
  (IF scope.alwaysPreventPullToRefresh
   THEN IF ~scope.hasVerticalScroll /\ ~scope.hasHorizontalScroll
        THEN Suppress
        ELSE <<>>
   ELSE <<>>)

\* C15: the conditions of the two suppression branches never both hold, and
\* onTouchMove without the early return makes the same calls on every
\* touchmove.
C15_EarlyReturnRedundant ==
  lastEvent.type = "touchmove" =>
    /\ lastEvent.calls = onTouchMoveNoReturn(CurrentScope, lastEvent.y)
    /\ \A hasV, hasH, fromTop, always \in BOOLEAN : \A startY, moveY \in 0..MaxY :
         LET scope == [startY |-> startY, scrollStartedFromTop |-> fromTop,
                       hasVerticalScroll |-> hasV, hasHorizontalScroll |-> hasH,
                       alwaysPreventPullToRefresh |-> always]
         IN onTouchMove(scope, moveY) = onTouchMoveNoReturn(scope, moveY)
    /\ ~( /\ CurrentScope.hasVerticalScroll /\ CurrentScope.scrollStartedFromTop
          /\ CurrentScope.alwaysPreventPullToRefresh
          /\ ~CurrentScope.hasVerticalScroll /\ ~CurrentScope.hasHorizontalScroll )

C15_Witness ==
  /\ lastEvent.type = "touchmove"
  /\ CurrentScope.hasVerticalScroll /\ CurrentScope.scrollStartedFromTop
  /\ CurrentScope.hasHorizontalScroll
  /\ CurrentScope.alwaysPreventPullToRefresh
  /\ lastEvent.y <= gesture.y
  /\ lastEvent.calls = <<>>

\* C16: on every touchmove preventDefault, stopPropagation and the keyboard
\* dismisser are called all together, in that order, or not at all; nothing
\* is called on a touchstart or touchend event; the focus changes only in a
\* suppressed touchmove.
C16_AllOrNothing ==
  [][ /\ lastEvent'.type = "touchmove" => lastEvent'.calls \in {<<>>, Suppress}
      /\ lastEvent'.type \in {"touchstart", "touchend"} => lastEvent'.calls = <<>>
      /\ activeElement' # activeElement =>
           (lastEvent'.type = "touchmove" /\ lastEvent'.calls = Suppress) ]_vars

C16_Witness ==
  /\ lastEvent.type = "touchmove"
  /\ lastEvent.calls = Suppress
  /\ ~StartedFromTop
  /\ activeElement = TextArea

====
